---- MODULE Spec2Model ----
(***************************************************************************)
(* A model of fanduel-lpsolve/gen_lp.py: the script reads a player .csv    *)
(* file, groups the players by position, filters out the players with a    *)
(* low point projection and prints an lp_solve program to stdout.          *)
(*                                                                         *)
(* A str is a sequence of one-character strings.  A float is a fixed-point *)
(* number: the integer Scale * value (three fractional digits); sums,     *)
(* comparisons and products of these are exact, so float rounding is not   *)
(* modelled.  stdout is the sequence of the statements printed so far.     *)
(***************************************************************************)
EXTENDS Integers, Sequences, FiniteSets, TLC

VARIABLES
    fieldnames,       \* the header of the .csv file: DictReader.fieldnames
    lines,            \* the data lines of the file, each a sequence of cells
    min_player_proj,  \* args.min_player_proj
    salary_cap,       \* args.salary_cap
    proj_jitter,      \* args.proj_jitter
    pc,               \* the statement the script is at
    row_idx,          \* number of lines the loop of load_player_data has read
    player_data,      \* position -> list of PlayerDatum
    all_players,      \* the local list of write_lp_file
    out,              \* stdout
    error,            \* the exception that ended the run, "" if none
    refiltered        \* the result of filtering the filtered roster once more

vars == <<fieldnames, lines, min_player_proj, salary_cap, proj_jitter, pc,
          row_idx, player_data, all_players, out, error, refiltered>>

-----------------------------------------------------------------------------
(* Bounds of the model *)

\* The file holds at most MaxRows lines after its (possibly empty) leading roster.
MaxRows == 2

-----------------------------------------------------------------------------
(* Values *)

\* float: the fixed-point unit, 1.0 == Scale
Scale == 1000

\* Python's None: not a str (no str is a one-element sequence holding "None")
None == <<"None">>

QB == <<"Q", "B">>
RB == <<"R", "B">>
WR == <<"W", "R">>
TE == <<"T", "E">>
K == <<"K">>
D == <<"D">>

\* The keys of player_data, in the order of the dict literal
Positions == <<QB, RB, WR, TE, K, D>>

PositionKeys == {Positions[i] : i \in 1..Len(Positions)}

\* PlayerDatum = namedtuple('PlayerDatum', ['name', 'position', 'salary', 'projection'])
PlayerDatum(name, position, salary, projection) ==
    [name |-> name, position |-> position, salary |-> salary, projection |-> projection]

EmptyRoster == [pos \in PositionKeys |-> <<>>]

-----------------------------------------------------------------------------
(* str methods and conversions *)

DigitChars == <<"0", "1", "2", "3", "4", "5", "6", "7", "8", "9">>

Digits == {DigitChars[i] : i \in 1..Len(DigitChars)}

Letters == {"a", "b", "c", "x", "Q", "B", "R", "W", "T", "E", "K", "D", "X"}

\* str.isalpha on one character
IsAlpha(c) == c \in Letters

DigitVal(c) == (CHOOSE i \in 1..Len(DigitChars) : DigitChars[i] = c) - 1

RECURSIVE DecimalValue(_)
DecimalValue(s) ==
    IF s = <<>> THEN 0
    ELSE DecimalValue(SubSeq(s, 1, Len(s) - 1)) * 10 + DigitVal(s[Len(s)])

IsDigits(s) == s # <<>> /\ \A i \in 1..Len(s) : s[i] \in Digits

\* int() and float() skip the white space around the number
RECURSIVE Strip(_)
Strip(s) ==
    IF s = <<>> THEN s
    ELSE IF s[1] = " " THEN Strip(Tail(s))
    ELSE IF s[Len(s)] = " " THEN Strip(SubSeq(s, 1, Len(s) - 1))
    ELSE s

Sign(s) == IF s # <<>> /\ s[1] = "-" THEN -1 ELSE 1

Unsigned(s) == IF s # <<>> /\ s[1] \in {"+", "-"} THEN Tail(s) ELSE s

\* int(cell) returns: cell is a str holding a decimal integer
IntParses(cell) == cell # None /\ IsDigits(Unsigned(Strip(cell)))

ParseInt(cell) == Sign(Strip(cell)) * DecimalValue(Unsigned(Strip(cell)))

\* The position of the decimal point in s, Len(s) + 1 if there is none
PointAt(s) ==
    IF \E i \in 1..Len(s) : s[i] = "."
    THEN CHOOSE i \in 1..Len(s) : s[i] = "." /\ \A j \in 1..(i - 1) : s[j] # "."
    ELSE Len(s) + 1

IntPart(s) == SubSeq(s, 1, PointAt(s) - 1)

FracPart(s) == SubSeq(s, PointAt(s) + 1, Len(s))

AllDigits(s) == \A i \in 1..Len(s) : s[i] \in Digits

\* float(cell) returns: digits with at most one decimal point and a digit on
\* one side of it at least.  (The exponent, inf and nan spellings use
\* characters no cell of the model holds.)
FloatParses(cell) ==
    /\ cell # None
    /\ LET u == Unsigned(Strip(cell))
       IN /\ AllDigits(IntPart(u))
          /\ AllDigits(FracPart(u))
          /\ Len(IntPart(u)) + Len(FracPart(u)) > 0

\* The fractional digits, as thousandths (the cells of the model hold three
\* fractional digits at most)
FracValue(f) ==
    DecimalValue(SubSeq(f \o <<"0", "0", "0">>, 1, 3))

ParseFloat(cell) ==
    LET u == Unsigned(Strip(cell))
    IN Sign(Strip(cell)) * (DecimalValue(IntPart(u)) * Scale + FracValue(FracPart(u)))

-----------------------------------------------------------------------------
(* The input: the .csv file and the command line *)

Columns == {"PLAYER", "POSITION", "SALARY", "PROJECTION"}

\* The headers of the model's files: the documented column order, the player
\* column last, and a file without its PROJECTION column
Headers ==
    { <<"PLAYER", "POSITION", "SALARY", "PROJECTION">>,
      <<"POSITION", "SALARY", "PROJECTION", "PLAYER">>,
      <<"PLAYER", "POSITION", "SALARY">> }

Entry(player, position, salary, projection) ==
    [PLAYER |-> player, POSITION |-> position, SALARY |-> salary, PROJECTION |-> projection]

\* Lines every field of which loads.  The first two players' names differ
\* only in a non-alphabetic character; the first one's projection is the
\* default threshold; the third one's projection is negative.
GoodEntries ==
    { Entry(<<"a", ".", "b">>, QB, <<"7", "0", "0", "0">>, <<"2", ".", "7", "1", "8">>),
      Entry(<<"a", "b">>, QB, <<"5", "0", "0", "0">>, <<"3">>),
      Entry(<<"c">>, RB, <<"5", "0", "0", "0">>, <<"-", "0", ".", "5">>),
      Entry(<<"c">>, WR, <<"6", "0", "0", "0">>, <<"1", ".", "5">>),
      Entry(<<"a", " ", "c">>, QB, <<"6", "5", "0", "0">>, <<"1", ".", "5">>) }

\* Lines with an unknown position code, a salary and a projection that do not parse
BadEntries ==
    { Entry(<<"c">>, <<"X", "X">>, <<"5", "0", "0", "0">>, <<"3">>),
      Entry(<<"b">>, TE, <<"5", "x">>, <<"3">>),
      Entry(<<"b">>, K, <<"5", "0", "0", "0">>, <<"3", ".", "x">>) }

\* Lines that also come one cell short
ShortEntries ==
    { e \in GoodEntries : e.POSITION \in {RB, WR} }

\* One player for each position, each with a projection above the default threshold
FullRoster ==
    << Entry(<<"b">>, QB, <<"8", "0", "0", "0">>, <<"2", "0">>),
       Entry(<<"b", " ", "a">>, RB, <<"6", "0", "0", "0">>, <<"1", "2", ".", "5">>),
       Entry(<<"a">>, WR, <<"6", "5", "0", "0">>, <<"1", "1">>),
       Entry(<<"a">>, TE, <<"5", "0", "0", "0">>, <<"8">>),
       Entry(<<"x">>, K, <<"4", "5", "0", "0">>, <<"7", ".", "2", "5">>),
       Entry(<<"x">>, D, <<"4", "0", "0", "0">>, <<"6">>) >>

\* The cells of a line of the file, in the header's order, the last `cut` left out
Line(entry, header, cut) ==
    SubSeq([i \in 1..Len(header) |-> entry[header[i]]], 1, Len(header) - cut)

LinesOf(header) ==
    {Line(e, header, 0) : e \in GoodEntries \cup BadEntries}
        \cup {Line(e, header, 1) : e \in ShortEntries}

SeqsUpTo(S, n) == UNION {[1..k -> S] : k \in 0..n}

MinPlayerProjs == {2718, -1000}

SalaryCaps == {60000, 50000}

ProjJitters == {0, 250}

\* The values random.random() takes in the model: 0.0, 0.5 and the upper end
RandomSamples == {0, 500, 1000}

\* The orders in which a dict of the six positions is iterated: the order of
\* CPython 2.7's hash table and the insertion order (PyPy)
DictOrders ==
    { <<D, K, QB, WR, RB, TE>>, Positions }

-----------------------------------------------------------------------------
(* csv.DictReader *)

\* "KeyError" when the header lacks the column, None when the line is too
\* short to hold it (restval), the cell otherwise
HasColumn(header, col) == \E i \in 1..Len(header) : header[i] = col

ColumnAt(header, col) == CHOOSE i \in 1..Len(header) : header[i] = col

Cell(header, line, col) ==
    IF ColumnAt(header, col) <= Len(line) THEN line[ColumnAt(header, col)] ELSE None

-----------------------------------------------------------------------------
(* load_player_data *)

\* The exception the loop body raises on a line, "" if none, in the order
\* the body evaluates: the four row[...] lookups and conversions, then the
\* player_data[...] lookup
LoadError(header, line) ==
    IF ~HasColumn(header, "PLAYER") THEN "KeyError"
    ELSE IF ~HasColumn(header, "POSITION") THEN "KeyError"
    ELSE IF ~HasColumn(header, "SALARY") THEN "KeyError"
    ELSE IF Cell(header, line, "SALARY") = None THEN "TypeError"
    ELSE IF ~IntParses(Cell(header, line, "SALARY")) THEN "ValueError"
    ELSE IF ~HasColumn(header, "PROJECTION") THEN "KeyError"
    ELSE IF Cell(header, line, "PROJECTION") = None THEN "TypeError"
    ELSE IF ~FloatParses(Cell(header, line, "PROJECTION")) THEN "ValueError"
    ELSE IF Cell(header, line, "POSITION") \notin PositionKeys THEN "KeyError"
    ELSE ""

LoadDatum(header, line) ==
    PlayerDatum(Cell(header, line, "PLAYER"),
                Cell(header, line, "POSITION"),
                ParseInt(Cell(header, line, "SALARY")),
                ParseFloat(Cell(header, line, "PROJECTION")))

\* player_data[player_datum.position].append(player_datum)
AppendDatum(data, datum) ==
    [data EXCEPT ![datum.position] = Append(@, datum)]

-----------------------------------------------------------------------------
(* The filter of __main__ *)

\* Keep with > for >=: a player at the threshold is dropped
Keep_Strict(p, threshold) == p.projection > threshold

\* lambda p: p.projection >= args.min_player_proj
Keep(p, threshold) == p.projection >= threshold

\* FilterRoster passing over the first record of each list
FilterRoster_SkipsFirst(data, threshold) ==
    [pos \in DOMAIN data |->
        SelectSeq(IF data[pos] = <<>> THEN <<>> ELSE Tail(data[pos]),
                  LAMBDA p : p.projection >= threshold)]

\* filter(lambda ..., player_data[position]), for every position
FilterRoster(data, threshold) ==
    [pos \in DOMAIN data |-> SelectSeq(data[pos], LAMBDA p : Keep(p, threshold))]

-----------------------------------------------------------------------------
(* write_lp_file *)

\* filter(str.isalpha, player.name)
AlphaOnly(name) == SelectSeq(name, IsAlpha)

\* '%s_%s' % (player.position, filter(str.isalpha, player.name))
get_var_name(p) == p.position \o <<"_">> \o AlphaOnly(p.name)

\* filter(str.isalpha, None) raises TypeError
NameError(players) ==
    IF \E i \in 1..Len(players) : players[i].name = None THEN "TypeError" ELSE ""

RECURSIVE Concat(_, _)
\* the lists of data, one after the other in the order of the keys
Concat(data, order) ==
    IF order = <<>> THEN <<>>
    ELSE data[Head(order)] \o Concat(data, Tail(order))

\* random.uniform(a, b): a + (b - a) * random()
Uniform(a, b, r) == a + ((b - a) * r) \div Scale

\* Coefficient with the draw taken from [-jitter, jitter], not around 1.0
Coefficient_JitterOnly(p, jitter, r) == p.projection * Uniform(0 - jitter, jitter, r)

\* p.projection * random.uniform(1.0 - proj_jitter, 1.0 + proj_jitter), in
\* units of 1 / (Scale * Scale).  ('%s' prints twelve significant digits,
\* which is every digit of the model's values.)
Coefficient(p, jitter, r) == p.projection * Uniform(Scale - jitter, Scale + jitter, r)

VarNames(players) == [i \in 1..Len(players) |-> get_var_name(players[i])]

\* PositionLimits with wr_lim summing the running backs
PositionLimits_CopiedLine ==
    << [label |-> "qb_lim", position |-> QB, count |-> 1],
       [label |-> "rb_lim", position |-> RB, count |-> 2],
       [label |-> "wr_lim", position |-> RB, count |-> 3],
       [label |-> "te_lim", position |-> TE, count |-> 1],
       [label |-> "k_lim", position |-> K, count |-> 1],
       [label |-> "d_lim", position |-> D, count |-> 1] >>

\* The six print statements of the position constraints
PositionLimits ==
    << [label |-> "qb_lim", position |-> QB, count |-> 1],
       [label |-> "rb_lim", position |-> RB, count |-> 2],
       [label |-> "wr_lim", position |-> WR, count |-> 3],
       [label |-> "te_lim", position |-> TE, count |-> 1],
       [label |-> "k_lim", position |-> K, count |-> 1],
       [label |-> "d_lim", position |-> D, count |-> 1] >>

\* AfterLimit going from te_lim straight to d_lim
AfterLimit_SkipsKicker(i) ==
    IF PositionLimits[i].label = "te_lim" THEN "d_lim"
    ELSE IF i < Len(PositionLimits) THEN PositionLimits[i + 1].label
    ELSE "sal_lim"

\* The statement that follows the i-th position constraint
AfterLimit(i) == IF i < Len(PositionLimits) THEN PositionLimits[i + 1].label ELSE "sal_lim"

ObjectiveStatement(players, jitter, draws) ==
    [label |-> "max",
     terms |-> [i \in 1..Len(players) |->
                   [coef |-> Coefficient(players[i], jitter, draws[i]),
                    var |-> get_var_name(players[i])]]]

LimitStatement(limit, data) ==
    [label |-> limit.label, vars |-> VarNames(data[limit.position]),
     op |-> "=", rhs |-> limit.count]

\* SalaryStatement with the default cap for the configured one
SalaryStatement_DefaultCap(players, cap) ==
    [label |-> "sal_lim",
     terms |-> [i \in 1..Len(players) |->
                   [coef |-> players[i].salary, var |-> get_var_name(players[i])]],
     op |-> "<=", rhs |-> 60000]

SalaryStatement(players, cap) ==
    [label |-> "sal_lim",
     terms |-> [i \in 1..Len(players) |->
                   [coef |-> players[i].salary, var |-> get_var_name(players[i])]],
     op |-> "<=", rhs |-> cap]

\* BinStatement losing the last player
BinStatement_DropsLast(players) ==
    [label |-> "bin", vars |-> VarNames(SubSeq(players, 1, Len(players) - 1))]

BinStatement(players) ==
    [label |-> "bin", vars |-> VarNames(players)]

-----------------------------------------------------------------------------
(* The run *)

NotRefiltered == [done |-> FALSE, roster |-> EmptyRoster]

\* A file of at most MaxRows lines under any header with any command line,
\* or a file that starts with the full roster, run without jitter
Init ==
    /\ fieldnames \in Headers
    /\ \E lead \in {<<>>, FullRoster} :
          /\ lines \in {[i \in 1..Len(lead) |-> Line(lead[i], fieldnames, 0)] \o tail :
                           tail \in SeqsUpTo(LinesOf(fieldnames), MaxRows)}
          /\ proj_jitter \in IF lead = <<>> THEN ProjJitters ELSE {0}
    /\ min_player_proj \in MinPlayerProjs
    /\ salary_cap \in SalaryCaps
    /\ pc = "load"
    /\ row_idx = 0
    /\ player_data = EmptyRoster
    /\ all_players = <<>>
    /\ out = <<>>
    /\ error = ""
    /\ refiltered = NotRefiltered

\* One pass of the loop of load_player_data, or its end
LoadRow ==
    /\ pc = "load"
    /\ row_idx < Len(lines)
    /\ LET line == lines[row_idx + 1]
           err == LoadError(fieldnames, line)
       IN IF err # ""
          THEN /\ pc' = "failed"
               /\ error' = err
               /\ UNCHANGED <<row_idx, player_data>>
          ELSE /\ player_data' = AppendDatum(player_data, LoadDatum(fieldnames, line))
               /\ row_idx' = row_idx + 1
               /\ UNCHANGED <<pc, error>>
    /\ UNCHANGED <<fieldnames, lines, min_player_proj, salary_cap, proj_jitter,
                   all_players, out, refiltered>>

LoadDone ==
    /\ pc = "load"
    /\ row_idx = Len(lines)
    /\ pc' = "filter"
    /\ UNCHANGED <<fieldnames, lines, min_player_proj, salary_cap, proj_jitter,
                   row_idx, player_data, all_players, out, error, refiltered>>

\* The filter loop of __main__
FilterPlayers ==
    /\ pc = "filter"
    /\ player_data' = FilterRoster(player_data, min_player_proj)
    /\ pc' = "collect"
    /\ UNCHANGED <<fieldnames, lines, min_player_proj, salary_cap, proj_jitter,
                   row_idx, all_players, out, error, refiltered>>

\* The loop of write_lp_file that builds all_players
CollectPlayers ==
    /\ pc = "collect"
    /\ \E order \in DictOrders : all_players' = Concat(player_data, order)
    /\ pc' = "max"
    /\ UNCHANGED <<fieldnames, lines, min_player_proj, salary_cap, proj_jitter,
                   row_idx, player_data, out, error, refiltered>>

\* print 'max: ...': the whole line is built before any of it is printed
WriteObjective ==
    /\ pc = "max"
    /\ IF NameError(all_players) # ""
       THEN /\ pc' = "failed"
            /\ error' = NameError(all_players)
            /\ UNCHANGED out
       ELSE /\ \E draws \in [1..Len(all_players) ->
                               IF proj_jitter = 0 THEN {0} ELSE RandomSamples] :
                  out' = Append(out, ObjectiveStatement(all_players, proj_jitter, draws))
            /\ pc' = PositionLimits[1].label
            /\ UNCHANGED error
    /\ UNCHANGED <<fieldnames, lines, min_player_proj, salary_cap, proj_jitter,
                   row_idx, player_data, all_players, refiltered>>

\* print 'qb_lim: ...' to print 'd_lim: ...'
WritePositionLimit ==
    /\ \E i \in 1..Len(PositionLimits) :
          /\ pc = PositionLimits[i].label
          /\ out' = Append(out, LimitStatement(PositionLimits[i], player_data))
          /\ pc' = AfterLimit(i)
    /\ UNCHANGED <<fieldnames, lines, min_player_proj, salary_cap, proj_jitter,
                   row_idx, player_data, all_players, error, refiltered>>

\* print 'sal_lim: ...'
WriteSalaryLimit ==
    /\ pc = "sal_lim"
    /\ out' = Append(out, SalaryStatement(all_players, salary_cap))
    /\ pc' = "bin"
    /\ UNCHANGED <<fieldnames, lines, min_player_proj, salary_cap, proj_jitter,
                   row_idx, player_data, all_players, error, refiltered>>

\* print 'bin ...'
WriteBinary ==
    /\ pc = "bin"
    /\ out' = Append(out, BinStatement(all_players))
    /\ pc' = "done"
    /\ UNCHANGED <<fieldnames, lines, min_player_proj, salary_cap, proj_jitter,
                   row_idx, player_data, all_players, error, refiltered>>

Next ==
    \/ LoadRow
    \/ LoadDone
    \/ FilterPlayers
    \/ CollectPlayers
    \/ WriteObjective
    \/ WritePositionLimit
    \/ WriteSalaryLimit
    \/ WriteBinary

Spec == Init /\ [][Next]_vars

\* The filter applied a second time, to the filtered roster
FilterAgain ==
    /\ pc = "collect"
    /\ ~refiltered.done
    /\ refiltered' = [done |-> TRUE, roster |-> FilterRoster(player_data, min_player_proj)]
    /\ UNCHANGED <<fieldnames, lines, min_player_proj, salary_cap, proj_jitter, pc,
                   row_idx, player_data, all_players, out, error>>

NextRefilter == Next \/ FilterAgain

SpecRefilter == Init /\ [][NextRefilter]_vars

-----------------------------------------------------------------------------
(* What the claims speak of *)

\* Every line of the file has been loaded and the filter has run
AfterFilter == row_idx = Len(lines) /\ pc \notin {"load", "filter"}

\* The loaded record of every line, in the file's order (once all have loaded)
LoadedRecords == [i \in 1..Len(lines) |-> LoadDatum(fieldnames, lines[i])]

LoadedOf(pos) == SelectSeq(LoadedRecords, LAMBDA d : d.position = pos)

Occurrences(s, x) == Cardinality({i \in DOMAIN s : s[i] = x})

Range(s) == {s[i] : i \in DOMAIN s}

RECURSIVE SumOver(_, _)
SumOver(f, S) ==
    IF S = {} THEN 0
    ELSE LET x == CHOOSE y \in S : TRUE IN f[x] + SumOver(f, S \ {x})

\* The number of players left by the filter
SurvivorCount == SumOver([pos \in PositionKeys |-> Len(player_data[pos])], PositionKeys)

\* The statements of stdout with a label
StatementsLabelled(label) == {i \in DOMAIN out : out[i].label = label}

\* A position without a player after the filter
EmptyPosition == \E pos \in PositionKeys : player_data[pos] = <<>>

\* Two surviving players of one position with different names that strip to
\* the same letters
NameCollision ==
    \E pos \in PositionKeys : \E i, j \in DOMAIN player_data[pos] :
        /\ player_data[pos][i].name # None
        /\ player_data[pos][j].name # None
        /\ player_data[pos][i].name # player_data[pos][j].name
        /\ AlphaOnly(player_data[pos][i].name) = AlphaOnly(player_data[pos][j].name)

\* Two players of all_players with one variable name
SharedVariable ==
    \E i, j \in DOMAIN all_players :
        i # j /\ get_var_name(all_players[i]) = get_var_name(all_players[j])

\* A line with a required column missing (from the header or from the line),
\* a salary or a projection that does not parse, or an unknown position code
Malformed(header, line) ==
    \/ \E col \in Columns : ~HasColumn(header, col) \/ Cell(header, line, col) = None
    \/ ~IntParses(Cell(header, line, "SALARY"))
    \/ ~FloatParses(Cell(header, line, "PROJECTION"))
    \/ Cell(header, line, "POSITION") \notin PositionKeys

-----------------------------------------------------------------------------
(* C1 *)

\* C1: whenever a position has no player left after the filter, the run
\* fails and prints nothing: stdout stays empty and the run never completes.
C1_EmptyPositionFailsWithoutOutput ==
    (AfterFilter /\ EmptyPosition) => (out = <<>> /\ pc # "done")

-----------------------------------------------------------------------------
(* C2 *)

\* C2: whenever two surviving players of one position have names that strip
\* to the same alphabetic string, the run fails instead of printing a
\* formulation in which the two share a variable: stdout stays empty.
C2_CollisionFailsWithoutOutput ==
    (AfterFilter /\ NameCollision) => (out = <<>> /\ pc # "done")

-----------------------------------------------------------------------------
(* C3 *)

\* C3: whenever a line of the file is malformed (a required column missing,
\* a number that does not parse, an unknown position code), the run fails
\* and nothing is printed: stdout stays empty and the run never completes.
C3_MalformedLineFailsWithoutOutput ==
    (\E i \in DOMAIN lines : Malformed(fieldnames, lines[i]))
        => (out = <<>> /\ pc # "done")

-----------------------------------------------------------------------------
(* C4 *)

\* The objective, once printed, has one term for each player of all_players
ObjectivePrinted == out # <<>> /\ out[1].label = "max"

\* C4 as stated: for every player of the printed objective, the coefficient
\* lies in [projection * (1 - j), projection * (1 + j)], with j the jitter.
C4_CoefficientInStatedInterval ==
    ObjectivePrinted =>
        \A i \in DOMAIN out[1].terms :
            /\ all_players[i].projection * (Scale - proj_jitter) <= out[1].terms[i].coef
            /\ out[1].terms[i].coef <= all_players[i].projection * (Scale + proj_jitter)

Min(a, b) == IF a <= b THEN a ELSE b

Max(a, b) == IF a >= b THEN a ELSE b

\* C4 amended: for every player of the printed objective, the coefficient
\* lies between projection * (1 - j) and projection * (1 + j), whichever of
\* the two is the smaller, and equals the projection when j = 0.
C4_CoefficientBetweenEndpoints ==
    ObjectivePrinted =>
        /\ Len(out[1].terms) = Len(all_players)
        /\ \A i \in DOMAIN out[1].terms :
              LET lo == all_players[i].projection * (Scale - proj_jitter)
                  hi == all_players[i].projection * (Scale + proj_jitter)
                  coef == out[1].terms[i].coef
              IN /\ Min(lo, hi) <= coef
                 /\ coef <= Max(lo, hi)
                 /\ proj_jitter = 0 => coef = all_players[i].projection * Scale

\* A jittered objective with a player of negative projection whose
\* coefficient is above projection * (1 + j), and one of positive projection
\* at its upper end
C4_Witness ==
    /\ ObjectivePrinted
    /\ proj_jitter > 0
    /\ \E i \in DOMAIN out[1].terms :
          /\ all_players[i].projection < 0
          /\ out[1].terms[i].coef > all_players[i].projection * (Scale + proj_jitter)
    /\ \E i \in DOMAIN out[1].terms :
          /\ all_players[i].projection > 0
          /\ out[1].terms[i].coef = all_players[i].projection * (Scale + proj_jitter)

-----------------------------------------------------------------------------
(* C5 *)

\* The lines of the file whose projection is at or above the threshold
SurvivingLines ==
    {i \in DOMAIN lines : LoadedRecords[i].projection >= min_player_proj}

\* C5: the 'bin' declaration lists as many variables as there are players
\* left by the filter, over the six positions (and as many different
\* variables when no two players share a variable name).
C5_BinCountsSurvivors ==
    \A i \in StatementsLabelled("bin") :
        /\ Len(out[i].vars) = Cardinality(SurvivingLines)
        /\ Len(out[i].vars) = SurvivorCount
        /\ ~SharedVariable => Cardinality(Range(out[i].vars)) = SurvivorCount

\* A finished run with every position filled, a player filtered out and more
\* players than positions
C5_Witness ==
    /\ pc = "done"
    /\ ~SharedVariable
    /\ StatementsLabelled("bin") # {}
    /\ ~EmptyPosition
    /\ SurvivorCount > Len(Positions)
    /\ SurvivorCount < Len(lines)

-----------------------------------------------------------------------------
(* C6 *)

\* The k-th smallest element of a set of numbers
KthOf(S, k) == CHOOSE i \in S : Cardinality({j \in S : j <= i}) = k

\* C6: when the filter has run, each position holds exactly its loaded records with
\* projection >= threshold, in the order they were loaded.
C6_FilterKeepsExactly ==
    pc = "collect" =>
        LET records == LoadedRecords
        IN \A pos \in PositionKeys :
              LET loaded == SelectSeq(records, LAMBDA d : d.position = pos)
                  kept == {i \in DOMAIN loaded : loaded[i].projection >= min_player_proj}
              IN /\ Len(player_data[pos]) = Cardinality(kept)
                 /\ \A k \in DOMAIN player_data[pos] :
                       player_data[pos][k] = loaded[KthOf(kept, k)]

\* A position that keeps two records, the second of them with the threshold's
\* own projection and loaded after a record that is dropped
C6_Witness ==
    /\ pc = "collect"
    /\ \E pos \in PositionKeys :
          /\ Len(player_data[pos]) = 2
          /\ Len(LoadedOf(pos)) = 3
          /\ player_data[pos][2].projection = min_player_proj
          /\ LoadedOf(pos)[2].projection < min_player_proj

-----------------------------------------------------------------------------
(* C7 *)

\* The position constraints as the claim lists them
RequiredCount ==
    << <<"qb_lim", QB, 1>>, <<"rb_lim", RB, 2>>, <<"wr_lim", WR, 3>>,
       <<"te_lim", TE, 1>>, <<"k_lim", K, 1>>, <<"d_lim", D, 1>> >>

\* C7: a finished run has printed exactly one equality constraint for each
\* position; it sums the variables of that position's survivors, in order,
\* none of them the variable of another position's survivor, and its
\* right-hand side is QB=1, RB=2, WR=3, TE=1, K=1, D=1.
C7_PositionConstraints ==
    pc = "done" =>
        \A n \in DOMAIN RequiredCount :
            LET label == RequiredCount[n][1]
                pos == RequiredCount[n][2]
            IN /\ Cardinality(StatementsLabelled(label)) = 1
               /\ \A i \in StatementsLabelled(label) :
                     /\ out[i].op = "="
                     /\ out[i].rhs = RequiredCount[n][3]
                     /\ Len(out[i].vars) = Len(player_data[pos])
                     /\ \A k \in DOMAIN out[i].vars :
                           /\ player_data[pos][k].position = pos
                           /\ out[i].vars[k] = get_var_name(player_data[pos][k])
                     /\ \A other \in PositionKeys \ {pos} :
                           \A k \in DOMAIN player_data[other] :
                               get_var_name(player_data[other][k]) \notin Range(out[i].vars)

\* A finished run with every position filled, one of them by two players,
\* and two players of different positions with the same name
C7_Witness ==
    /\ pc = "done"
    /\ ~EmptyPosition
    /\ \E pos \in PositionKeys : Len(player_data[pos]) >= 2
    /\ \E p, q \in PositionKeys :
          /\ p # q
          /\ player_data[p][1].name = player_data[q][1].name

-----------------------------------------------------------------------------
(* C8 *)

\* The 'salary variable' term of a player
SalaryTerm(p) == [coef |-> p.salary, var |-> get_var_name(p)]

\* C8: a finished run has printed exactly one budget inequality; each
\* survivor of each position has its 'salary variable' term in it as many
\* times as it is in the roster, there is no other term, and the right-hand
\* side is the salary cap.
C8_BudgetConstraint ==
    pc = "done" =>
        /\ Cardinality(StatementsLabelled("sal_lim")) = 1
        /\ \A i \in StatementsLabelled("sal_lim") :
              /\ out[i].op = "<="
              /\ out[i].rhs = salary_cap
              /\ Len(out[i].terms) = SurvivorCount
              /\ \A pos \in PositionKeys : \A k \in DOMAIN player_data[pos] :
                    LET t == SalaryTerm(player_data[pos][k])
                    IN Occurrences(out[i].terms, t) =
                          SumOver([q \in PositionKeys |->
                                      Cardinality({j \in DOMAIN player_data[q] :
                                          SalaryTerm(player_data[q][j]) = t})],
                                  PositionKeys)

\* A finished run with every position filled, more players than positions,
\* and a salary cap other than the default
C8_Witness ==
    /\ pc = "done"
    /\ ~EmptyPosition
    /\ SurvivorCount > Len(Positions)
    /\ salary_cap = 50000
    /\ \E i \in StatementsLabelled("sal_lim") : Len(out[i].terms) = SurvivorCount

-----------------------------------------------------------------------------
(* C9 *)

\* The order of the statements as the claim lists it
StatementOrder ==
    <<"max", "qb_lim", "rb_lim", "wr_lim", "te_lim", "k_lim", "d_lim", "sal_lim", "bin">>

Labels(statements) == [i \in DOMAIN statements |-> statements[i].label]

\* C9: what has been printed is at every moment the beginning of: objective,
\* QB, RB, WR, TE, K, D constraints, budget constraint, binary declaration;
\* a finished run has printed all nine, each once.
C9_EmissionOrder ==
    /\ Len(out) <= Len(StatementOrder)
    /\ Labels(out) = SubSeq(StatementOrder, 1, Len(out))
    /\ pc = "done" => Len(out) = Len(StatementOrder)

\* A finished run that has printed the nine statements for a full roster
C9_Witness ==
    /\ pc = "done"
    /\ Len(out) = Len(StatementOrder)
    /\ ~EmptyPosition

-----------------------------------------------------------------------------
(* C10 *)

\* C10: the filter applied to the filtered roster, at the same threshold,
\* returns the filtered roster.
C10_FilterIdempotent ==
    refiltered.done => refiltered.roster = player_data

\* The filter has been applied twice to a roster of which the first pass
\* dropped a record and kept two of one position
C10_Witness ==
    /\ refiltered.done
    /\ SurvivorCount < Len(lines)
    /\ \E pos \in PositionKeys : Len(refiltered.roster[pos]) >= 2

====
